---- MODULE Spec2Model ----
(***************************************************************************)
(* A model of the shipment board of OptiSigns-Flexi-Screen:                *)
(*   src/js/dashboard.js   two DOMContentLoaded listeners (L1, L2), each   *)
(*                         with its own loadAndDisplayData,                *)
(*                         processAndGroupShipments, createVerticalTable   *)
(*                         and startHorizontalScrolling (loop variant);    *)
(*   src/unnamed/part_000  one listener (L3) with the single-shot          *)
(*                         startHorizontalScrolling.                       *)
(* Time is counted in hours since the epoch (UTC); a Date object is its    *)
(* time value, NaN for an Invalid Date.  Pixels are integers; a scroll     *)
(* distance is kept in half pixels and a duration in milliseconds so that  *)
(* the divisions of the code are exact.                                    *)
(***************************************************************************)
EXTENDS Integers, Sequences, FiniteSets, TLC

VARIABLES
    tz,            \* the host's time zone
    now,           \* the time value new Date() returns
    dataByDay,     \* the retrieved document: the per-day arrays in key order
    allShipments,  \* the flattened record list
    groupedData,   \* what processAndGroupShipments returned (or that it threw)
    cpc,           \* position of a classification run
    page,          \* which script the page runs: "dashboard" or "part000"
    clientWidth,   \* the viewport extent of a region (pixels)
    rows,          \* the regions of the render target, top to bottom
    calls,         \* invocations of startHorizontalScrolling so far
    measured,      \* per region: how often the animator measured it, and whether
                   \* its items were rebuilt after a measurement
    hasContainer,  \* whether #slider-container exists
    notice,        \* whether the render target shows the error notice
    keyframes,     \* whether the keyframes style element is in the head
    loadingHidden, \* whether the loading message has been hidden
    pc,            \* position of each listener's loadAndDisplayData
    hist,          \* what each load cycle has done so far
    rot            \* the Slide Rotator: its pages, index, visible pages and timer

clfVars == <<tz, now, dataByDay, allShipments, groupedData, cpc>>
domVars == <<page, clientWidth, rows, calls, measured>>
loadVars == <<hasContainer, notice, keyframes, loadingHidden, pc, hist>>
rotVars == <<rot>>
vars == <<tz, now, dataByDay, allShipments, groupedData, cpc,
          page, clientWidth, rows, calls, measured,
          hasContainer, notice, keyframes, loadingHidden, pc, hist, rot>>

(***************************************************************************)
(* Bounds of the model.                                                    *)
(***************************************************************************)
\* The local calendar day of the reference instant ("today").
TodayDay == 3
\* Dated records name the days 0 .. MaxDay.
MaxDay == 11
\* The longest flattened record list of the list-level specification.
MaxLen == 3
\* The longest record list of the record-level specification.
MaxRec == 2
\* The most items a region holds before the animator runs.
MaxItems == 2
\* The most regions of the animator's specification.
MaxRegions == 2
\* The most invocations of the animator in a row.
MaxCalls == 2
\* The most grid rows the Slide Rotator pages.
MaxRows == 23
\* The most timer ticks of the Slide Rotator.
MaxTicks == 7

(***************************************************************************)
(* The host's clock and time zone (the ambient inputs of new Date() and of *)
(* Date.prototype.setHours).  A zone has a standard offset in hours and at *)
(* most one daylight-saving transition, at 02:00 local time of day "at":   *)
(* "spring" makes that day 23 hours long, "fall" makes it 25 hours long.   *)
(***************************************************************************)
HoursPerDay == 24

NaN == -1000000

Zones ==
    { [std |-> 0, dst |-> "none", at |-> 0],
      [std |-> -7, dst |-> "none", at |-> 0],
      [std |-> 9, dst |-> "none", at |-> 0] }
    \cup { [std |-> -8, dst |-> k, at |-> d] :
             k \in {"spring", "fall"}, d \in {TodayDay - 1, TodayDay} }

\* The zone's UTC offset in force at local midnight of local day D.
OffsetAtMidnight(z, D) ==
    IF z.dst = "spring" THEN (IF D <= z.at THEN z.std ELSE z.std + 1)
    ELSE IF z.dst = "fall" THEN (IF D <= z.at THEN z.std + 1 ELSE z.std)
    ELSE z.std

\* The time value of local midnight of local day D.
LocalMidnight(z, D) == D * HoursPerDay - OffsetAtMidnight(z, D)

\* The time value of wall-clock hour h of local day D (h outside 01:00-03:00).
LocalTime(z, D, h) ==
    D * HoursPerDay + h
      - (IF h < 2 THEN OffsetAtMidnight(z, D) ELSE OffsetAtMidnight(z, D + 1))

\* The local calendar day a time value falls on.
LocalDay(z, t) ==
    CHOOSE D \in -3 .. (MaxDay + 3) :
        LocalMidnight(z, D) <= t /\ t < LocalMidnight(z, D + 1)

\* date.setHours(0, 0, 0, 0): local midnight of the date's local day.
SetHoursZero(z, t) == IF t = NaN THEN NaN ELSE LocalMidnight(z, LocalDay(z, t))

(***************************************************************************)
(* Date strings.  form "none" is an absent, null or empty field (falsy);   *)
(* "bad" is a string that does not parse; "date" is the ISO date-only form *)
(* YYYY-MM-DD, which the Date constructor reads as UTC midnight;           *)
(* "datetime" is a date with a time of day and no offset, read as local    *)
(* time.                                                                   *)
(***************************************************************************)
NoStr == [form |-> "none", day |-> 0, hour |-> 0]
BadStr == [form |-> "bad", day |-> 0, hour |-> 0]
DateOnly(d) == [form |-> "date", day |-> d, hour |-> 0]
DateTime(d, h) == [form |-> "datetime", day |-> d, hour |-> h]

\* new Date(dateStr)
NewDate(z, s) ==
    IF s.form = "date" THEN s.day * HoursPerDay
    ELSE IF s.form = "datetime" THEN LocalTime(z, s.day, s.hour)
    ELSE NaN

\* Math.ceil(a / b) for integers a and b > 0.
CeilDiv(a, b) == -((-a) \div b)

(***************************************************************************)
(* Shipment records.  An element of the retrieved list is an object        *)
(* (kind "obj") or the JSON value null (kind "null").                      *)
(***************************************************************************)
Rec(a, d) == [kind |-> "obj", arrival |-> a, departure |-> d, reference |-> 0]
NullElem == [kind |-> "null", arrival |-> NoStr, departure |-> NoStr, reference |-> 0]

Ordinals == 0 .. 8
NoBucket == 9

EmptyGroups == [i \in Ordinals |-> << >>]

\* shipment.arrival || shipment.departure
EffectiveDateStr(s) == IF s.arrival.form # "none" THEN s.arrival ELSE s.departure

DiffDaysMutSwapped(z, today, dateStr) ==
    LET shipmentDate == SetHoursZero(z, NewDate(z, dateStr))
    IN  IF shipmentDate = NaN THEN NaN
        ELSE CeilDiv(today - shipmentDate, HoursPerDay)

\* diffDays of the forEach body; NaN when the date is invalid.
DiffDays(z, today, dateStr) ==
    LET shipmentDate == SetHoursZero(z, NewDate(z, dateStr))
    IN  IF shipmentDate = NaN THEN NaN
        ELSE CeilDiv(shipmentDate - today, HoursPerDay)

BucketOfMutGe7(diffDays) ==
    IF diffDays = NaN THEN NoBucket
    ELSE IF diffDays < 0 THEN 0
    ELSE IF diffDays = 0 THEN 1
    ELSE IF diffDays >= 1 /\ diffDays <= 6 THEN diffDays + 1
    ELSE IF diffDays > 7 THEN 8
    ELSE NoBucket

\* The if / else-if chain of the forEach body: the bucket index, or NoBucket
\* when no branch is taken (every comparison with NaN is false).
BucketOf(diffDays) ==
    IF diffDays = NaN THEN NoBucket
    ELSE IF diffDays < 0 THEN 0
    ELSE IF diffDays = 0 THEN 1
    ELSE IF diffDays >= 1 /\ diffDays <= 6 THEN diffDays + 1
    ELSE IF diffDays >= 7 THEN 8
    ELSE NoBucket

PushMutUnshift(groups, i, s) == [groups EXCEPT ![i] = <<s>> \o @]

\* groups[i].shipments.push(shipment)
Push(groups, i, s) == [groups EXCEPT ![i] = Append(@, s)]

\* One call of the forEach callback on an object.
ForEachBody(z, today, groups, s) ==
    LET dateStr == EffectiveDateStr(s)
    IN  IF dateStr.form = "none" THEN groups
        ELSE LET b == BucketOf(DiffDays(z, today, dateStr))
             IN  IF b = NoBucket THEN groups ELSE Push(groups, b, s)

RECURSIVE ForEach(_, _, _, _)
\* allShipments.forEach(...): reading a property of null throws a TypeError,
\* which ends the loop and propagates to the caller.
ForEach(z, today, list, groups) ==
    IF list = << >> THEN [raised |-> FALSE, groups |-> groups]
    ELSE IF Head(list).kind = "null" THEN [raised |-> TRUE, groups |-> groups]
    ELSE ForEach(z, today, Tail(list), ForEachBody(z, today, groups, Head(list)))

\* processAndGroupShipments(allShipments) at the instant t.
ProcessAndGroupShipments(z, t, list) ==
    LET today == SetHoursZero(z, t)
    IN  ForEach(z, today, list, EmptyGroups)

RECURSIVE Flat(_)
\* Object.values(dataByDay).flat(): the per-day arrays, in the order of the
\* document's (weekday-name) keys, concatenated.
Flat(days) == IF days = << >> THEN << >> ELSE Head(days) \o Flat(Tail(days))

(***************************************************************************)
(* Inputs.                                                                 *)
(***************************************************************************)
NowHours == {0, 13, 23}
Nows(z) == { LocalTime(z, TodayDay, h) : h \in NowHours }

RecHours == {0, 8, 23}
RichStrs ==
    {NoStr, BadStr} \cup { DateOnly(d) : d \in 0 .. MaxDay }
    \cup { DateTime(d, h) : d \in 0 .. MaxDay, h \in RecHours }
RichRecs ==
    { Rec(a, NoStr) : a \in RichStrs }
    \cup { Rec(NoStr, d) : d \in {BadStr, DateOnly(TodayDay), DateTime(TodayDay + 1, 8)} }

LeanRecs ==
    { Rec(NoStr, NoStr),
      Rec(BadStr, DateTime(TodayDay, 8)),
      Rec(NoStr, DateTime(TodayDay + 1, 8)),
      Rec(DateTime(TodayDay, 8), NoStr),
      Rec(DateOnly(TodayDay + 7), NoStr) }

SeqsUpTo(S, n) == UNION { [1 .. k -> S] : k \in 0 .. n }

\* The records of a list numbered by their position (the reference field).
Numbered(list) == [i \in 1 .. Len(list) |-> [list[i] EXCEPT !.reference = i]]

\* A document of two weekday arrays holding the list, cut at position k.
Cut(list, k) ==
    << [i \in 1 .. k |-> list[i]], [i \in 1 .. (Len(list) - k) |-> list[k + i]] >>

LeanDocs ==
    UNION { { Cut(Numbered(l), k) : k \in 0 .. Len(l) } :
              l \in SeqsUpTo(LeanRecs, MaxLen) }

RichDocs == { << Numbered(l) >> : l \in SeqsUpTo(RichRecs, MaxRec) \ {<< >>} }

NoResult == [raised |-> FALSE, groups |-> EmptyGroups]

\* The variables a specification does not use.
NoRot == rot = [totalRows |-> 0, rowsPerPage |-> 1, pages |-> << >>, currentIndex |-> 0,
                visible |-> {}, timer |-> FALSE, ticks |-> 0]

NoClassifier ==
    /\ tz = [std |-> 0, dst |-> "none", at |-> 0]
    /\ now = 0
    /\ dataByDay = << >>
    /\ allShipments = << >>
    /\ groupedData = NoResult
    /\ cpc = "off"

NoDom ==
    /\ page = "dashboard"
    /\ clientWidth = 0
    /\ rows = << >>
    /\ calls = 0
    /\ measured = << >>

Listeners == {"L1", "L2", "L3"}

NoHist ==
    [fetches |-> 0, classified |-> 0, built |-> 0, animated |-> 0, notices |-> 0,
     logs |-> 0, status |-> 0, rejected |-> FALSE, parsed |-> FALSE]

NoLoad ==
    /\ hasContainer = FALSE
    /\ notice = FALSE
    /\ keyframes = FALSE
    /\ loadingHidden = FALSE
    /\ pc = [l \in Listeners |-> "off"]
    /\ hist = [l \in Listeners |-> NoHist]

InitEnv ==
    /\ NoLoad
    /\ NoRot
    /\ tz \in Zones
    /\ now \in Nows(tz)
    /\ allShipments = << >>
    /\ groupedData = NoResult
    /\ cpc = "loaded"
    /\ NoDom

InitClassify == InitEnv /\ dataByDay \in LeanDocs
InitRecord == InitEnv /\ dataByDay \in RichDocs

\* Lines 56-57 of loadAndDisplayData: flatten the document and classify it.
Classify ==
    /\ cpc = "loaded"
    /\ allShipments' = Flat(dataByDay)
    /\ groupedData' = ProcessAndGroupShipments(tz, now, Flat(dataByDay))
    /\ cpc' = "classified"
    /\ UNCHANGED <<tz, now, dataByDay>>
    /\ UNCHANGED domVars
    /\ UNCHANGED loadVars
    /\ UNCHANGED rotVars

NextClassify == Classify

SpecClassify == InitClassify /\ [][NextClassify]_vars
SpecRecord == InitRecord /\ [][NextClassify]_vars

\* Every pair of records of the record-level universe, as one per-day array.
PairDocs == { << Numbered(<<a, b>>) >> : a \in RichRecs, b \in RichRecs }

InitPair == InitEnv /\ dataByDay \in PairDocs

SpecPair == InitPair /\ [][NextClassify]_vars

(***************************************************************************)
(* The classifier's contract (claims C1 to C4).                            *)
(***************************************************************************)
Classified == cpc = "classified"

\* A date string the Date constructor parses.
Parses(s) == s.form \in {"date", "datetime"}

\* The places <<bucket, position>> at which a record occurs in the result.
Places(r) ==
    { p \in Ordinals \X (1 .. Len(allShipments)) :
        /\ p[2] <= Len(groupedData.groups[p[1]])
        /\ groupedData.groups[p[1]][p[2]] = r }

RECURSIVE SumLen(_, _)
SumLen(groups, i) == IF i < 0 THEN 0 ELSE Len(groups[i]) + SumLen(groups, i - 1)

Excluded ==
    { i \in 1 .. Len(allShipments) : ~Parses(EffectiveDateStr(allShipments[i])) }

\* C1: the classifier returns nine buckets (ordinals 0..8); every record whose
\* EffectiveDate parses is a member of exactly one bucket, every record with no
\* EffectiveDate or an unparseable one is a member of none, and the bucket sizes
\* plus the number of excluded records sum to the length of the input.
C1_Partition ==
    Classified =>
        /\ ~groupedData.raised
        /\ DOMAIN groupedData.groups = 0 .. 8
        /\ \A i \in 1 .. Len(allShipments) :
             Cardinality(Places(allShipments[i])) =
                 (IF Parses(EffectiveDateStr(allShipments[i])) THEN 1 ELSE 0)
        /\ SumLen(groupedData.groups, 8) + Cardinality(Excluded) = Len(allShipments)

\* C1 witness: a classified list with a bucketed record, a record without any
\* date and a record whose date does not parse.
C1_Witness ==
    /\ Classified
    /\ Len(allShipments) = 3
    /\ \E i, j, k \in 1 .. 3 :
         /\ Parses(EffectiveDateStr(allShipments[i]))
         /\ EffectiveDateStr(allShipments[j]) = NoStr
         /\ EffectiveDateStr(allShipments[k]) = BadStr
    /\ SumLen(groupedData.groups, 8) = 1

\* The bucket the classifier's contract gives a record d local calendar days
\* after today.
ExpectedBucket(d) ==
    IF d < 0 THEN 0 ELSE IF d = 0 THEN 1 ELSE IF d <= 6 THEN d + 1 ELSE 8

\* The number of local calendar days from today to the day the record's parsed
\* EffectiveDate falls on.
CalendarDiff(r) ==
    LocalDay(tz, NewDate(tz, EffectiveDateStr(r))) - LocalDay(tz, now)

\* C2: a record d local calendar days from today is in ordinal 0 when d < 0, 1
\* when d = 0, d + 1 when 1 <= d <= 6 and 8 when d >= 7, whatever the length in
\* hours of the local days in between.
C2_OrdinalByCalendarDays ==
    Classified =>
        \A i \in 1 .. Len(allShipments) :
            Parses(EffectiveDateStr(allShipments[i])) =>
                \E n \in 1 .. Len(allShipments) :
                    <<ExpectedBucket(CalendarDiff(allShipments[i])), n>>
                        \in Places(allShipments[i])

\* The calendar day a date string names.
NamedDay(s) == s.day

\* C3: a record whose EffectiveDate names today's calendar day is in ordinal 1,
\* for any time of day and either form of the date string, and two records whose
\* EffectiveDates name the same calendar day are in the same bucket.
C3_TodayIsOrdinal1 ==
    Classified =>
        /\ \A i \in 1 .. Len(allShipments) :
             LET s == EffectiveDateStr(allShipments[i])
             IN  (Parses(s) /\ NamedDay(s) = LocalDay(tz, now)) =>
                     \E n \in 1 .. Len(allShipments) :
                         <<1, n>> \in Places(allShipments[i])
        /\ \A i, j \in 1 .. Len(allShipments) :
             LET s == EffectiveDateStr(allShipments[i])
                 u == EffectiveDateStr(allShipments[j])
             IN  (Parses(s) /\ Parses(u) /\ NamedDay(s) = NamedDay(u)) =>
                     { p[1] : p \in Places(allShipments[i]) }
                         = { p[1] : p \in Places(allShipments[j]) }

\* The document's per-day arrays concatenated in source order.
InputOrder == dataByDay[1] \o (IF Len(dataByDay) > 1 THEN dataByDay[2] ELSE << >>)

\* A sequence restricted to the elements of a set.
Restrict(list, S) == LET In(r) == r \in S IN SelectSeq(list, In)

Members(b) == { groupedData.groups[b][i] : i \in 1 .. Len(groupedData.groups[b]) }

\* C4: every bucket's member sequence is the input sequence (the per-day arrays
\* concatenated in source order) restricted to the records of that bucket.
C4_StablePartition ==
    Classified =>
        \A b \in Ordinals : groupedData.groups[b] = Restrict(InputOrder, Members(b))

\* C4 witness: a bucket holding two records of different per-day arrays, and a
\* bucket holding two records of one per-day array.
C4_Witness ==
    /\ Classified
    /\ \E b \in Ordinals :
         /\ Len(groupedData.groups[b]) >= 2
         /\ \/ /\ Len(dataByDay[1]) >= 1 /\ Len(dataByDay[2]) >= 1
               /\ dataByDay[1][1] \in Members(b)
               /\ dataByDay[2][1] \in Members(b)
            \/ /\ Len(dataByDay[1]) >= 3
               /\ dataByDay[1][1] \in Members(b)
               /\ dataByDay[1][3] \in Members(b)
               /\ dataByDay[1][2] \notin Members(b)

(***************************************************************************)
(* Regions and the Overflow Animator (startHorizontalScrolling).           *)
(* A region is a .shipment-items-container: its child items and the style  *)
(* properties the animator sets.  An item has a laid-out width.            *)
(***************************************************************************)
\* scrollRate, pixels per second (loop variant).
ScrollRate == 50
\* The single-shot variant's seconds per hidden pixel, 0.05, in milliseconds.
MsPerPixel == 50
\* The single-shot variant's minimum duration, seconds.
MinDuration == 15
MsPerSecond == 1000

NoTitle == [mark |-> "", day |-> 0]

\* No --scroll-width, no animation, no animation-duration, no class.
NoStyle ==
    [hasVar |-> FALSE, scrollWidth2 |-> 0, animation |-> "none", animationMs |-> 0,
     animationDuration |-> 0, scrolling |-> FALSE]

\* An item: its laid-out width, the record it was made for, whether it is a
\* clone, and whether it has any text.
Item(w, ref) == [w |-> w, ref |-> ref, clone |-> FALSE, text |-> TRUE]

Region(title, items) == [title |-> title, items |-> items, style |-> NoStyle]

RECURSIVE SumWidths(_)
SumWidths(items) ==
    IF items = << >> THEN 0 ELSE Head(items).w + SumWidths(Tail(items))

Max(a, b) == IF a >= b THEN a ELSE b

\* container.scrollWidth: the laid-out extent of the children side by side, never
\* less than the viewport extent.
ScrollWidth(items, cw) == Max(cw, SumWidths(items))

OverflowsMutGe(items, cw) == ScrollWidth(items, cw) >= cw

\* container.scrollWidth > container.clientWidth
Overflows(items, cw) == ScrollWidth(items, cw) > cw

\* originalItems.forEach(item => container.appendChild(item.cloneNode(true)))
AppendClones(items) ==
    items \o [i \in 1 .. Len(items) |-> [items[i] EXCEPT !.clone = TRUE]]

LoopStyleMutFullWidth(items, cw) ==
    [NoStyle EXCEPT
        !.hasVar = TRUE,
        !.scrollWidth2 = -2 * ScrollWidth(items, cw),
        !.animation = "horizontal-scroll linear infinite",
        !.animationMs = (ScrollWidth(items, cw) * MsPerSecond) \div ScrollRate]

\* The style the loop variant sets from the region's items after duplication:
\* scrollDistance = -scrollWidth / 2 (kept in half pixels) and
\* duration = |scrollDistance| / scrollRate seconds (kept in milliseconds).
LoopStyle(items, cw) ==
    [NoStyle EXCEPT
        !.hasVar = TRUE,
        !.scrollWidth2 = -ScrollWidth(items, cw),
        !.animation = "horizontal-scroll linear infinite",
        !.animationMs = (ScrollWidth(items, cw) * MsPerSecond) \div (2 * ScrollRate)]

\* The loop variant's forEach body (dashboard.js, both listeners).
AnimateLoop(r, cw) ==
    IF Overflows(r.items, cw)
    THEN [r EXCEPT !.items = AppendClones(r.items),
                   !.style = [LoopStyle(AppendClones(r.items), cw) EXCEPT
                                 !.animationDuration = r.style.animationDuration,
                                 !.scrolling = r.style.scrolling]]
    ELSE r

SingleDurationMutNoFloor(hidden) == hidden * MsPerPixel

\* Math.max(15, Math.abs(scrollDistance) * 0.05) seconds, in milliseconds.
SingleDuration(hidden) == Max(MinDuration * MsPerSecond, hidden * MsPerPixel)

\* The single-shot variant's forEach body (part_000).
AnimateSingle(r, cw) ==
    IF Overflows(r.items, cw)
    THEN [r EXCEPT !.style =
            [@ EXCEPT !.hasVar = TRUE,
                      !.scrollWidth2 = -2 * (ScrollWidth(r.items, cw) - cw),
                      !.animationDuration = SingleDuration(ScrollWidth(r.items, cw) - cw),
                      !.scrolling = TRUE]]
    ELSE r

\* startHorizontalScrolling() of the page's script over every region.
StartHorizontalScrolling(pg, rs, cw) ==
    [i \in 1 .. Len(rs) |->
        IF pg = "dashboard" THEN AnimateLoop(rs[i], cw) ELSE AnimateSingle(rs[i], cw)]

ItemWidths == {150, 400}
ClientWidths == {300, 500}

NumberedItems(ws) == [i \in 1 .. Len(ws) |-> Item(ws[i], i)]

AnimRegions ==
    { Region(NoTitle, NumberedItems(ws)) : ws \in SeqsUpTo(ItemWidths, MaxItems) }

InitAnim ==
    /\ NoClassifier
    /\ NoLoad
    /\ NoRot
    /\ page \in {"dashboard", "part000"}
    /\ clientWidth \in ClientWidths
    /\ rows \in SeqsUpTo(AnimRegions, MaxRegions) \ {<< >>}
    /\ calls = 0
    /\ measured = << >>

\* One invocation of the loop variant.
InvokeLoop ==
    /\ page = "dashboard"
    /\ calls < MaxCalls
    /\ rows' = StartHorizontalScrolling(page, rows, clientWidth)
    /\ calls' = calls + 1
    /\ UNCHANGED <<page, clientWidth, measured>>
    /\ UNCHANGED clfVars
    /\ UNCHANGED loadVars
    /\ UNCHANGED rotVars

\* One invocation of the single-shot variant.
InvokeSingle ==
    /\ page = "part000"
    /\ calls < MaxCalls
    /\ rows' = StartHorizontalScrolling(page, rows, clientWidth)
    /\ calls' = calls + 1
    /\ UNCHANGED <<page, clientWidth, measured>>
    /\ UNCHANGED clfVars
    /\ UNCHANGED loadVars
    /\ UNCHANGED rotVars

NextAnim == InvokeLoop \/ InvokeSingle

SpecAnim == InitAnim /\ [][NextAnim]_vars

(***************************************************************************)
(* The animator's contract (claims C5 to C7).                              *)
(***************************************************************************)
Extent(r) == ScrollWidth(r.items, clientWidth)

\* C5: when a region's content extent is at most its viewport extent, an
\* invocation of the animator (either variant) appends no clone and sets no
\* animation property on it: the region is as before, so any number of
\* invocations in a row leave it as it was before the first.
C5_NoOverflowNoChange ==
    [][\A i \in 1 .. Len(rows) :
          Extent(rows[i]) <= clientWidth =>
              /\ Len(rows') = Len(rows)
              /\ rows'[i] = rows[i]
              /\ rows'[i].style = NoStyle]_vars

\* C5 witness: after two invocations, a region with items that fit is untouched
\* beside a region that overflowed and was animated.
C5_Witness ==
    /\ calls = 2
    /\ \E i, j \in 1 .. Len(rows) :
         /\ rows[i].items # << >>
         /\ Extent(rows[i]) <= clientWidth
         /\ rows[i].style = NoStyle
         /\ rows[j].style # NoStyle

\* The widths and references of a sequence of items, in order.
Shapes(items) == [i \in 1 .. Len(items) |-> <<items[i].w, items[i].ref>>]

\* C6: in loop mode a region whose content extent E exceeds the viewport gets
\* one clone of every original item appended in the original order (the item
\* count doubles, the extent becomes 2E), a scroll distance of magnitude E and a
\* linear infinite animation of E / 50 seconds.
C6_LoopDoubles ==
    [][\A i \in 1 .. Len(rows) :
          (page = "dashboard" /\ Extent(rows[i]) > clientWidth) =>
              LET E == Extent(rows[i])
                  n == Len(rows[i].items)
              IN  /\ Len(rows'[i].items) = 2 * n
                  /\ SubSeq(rows'[i].items, 1, n) = rows[i].items
                  /\ Shapes(SubSeq(rows'[i].items, n + 1, 2 * n)) = Shapes(rows[i].items)
                  /\ \A k \in (n + 1) .. (2 * n) : rows'[i].items[k].clone
                  /\ ScrollWidth(rows'[i].items, clientWidth) = 2 * E
                  /\ rows'[i].style.hasVar
                  /\ rows'[i].style.scrollWidth2 = -2 * E
                  /\ rows'[i].style.animation = "horizontal-scroll linear infinite"
                  /\ rows'[i].style.animationMs * ScrollRate = E * MsPerSecond]_vars

\* C6 witness: after one invocation of the loop variant a region of two items
\* has become four items and carries the animation.
C6_Witness ==
    /\ page = "dashboard"
    /\ calls = 1
    /\ \E i \in 1 .. Len(rows) :
         /\ Len(rows[i].items) = 4
         /\ rows[i].style.animation = "horizontal-scroll linear infinite"
         /\ rows[i].style.animationMs > 0

\* C7: in the single-shot variant a region with content extent C above the
\* viewport extent V gets no clone, a scroll distance of exactly -(C - V) and a
\* duration of max(15, (C - V) * 0.05) seconds, never below 15 seconds and
\* exactly 15 seconds for every overflow of 300 pixels or less.
C7_SingleShotFloor ==
    [][\A i \in 1 .. Len(rows) :
          (page = "part000" /\ Extent(rows[i]) > clientWidth) =>
              LET hidden == Extent(rows[i]) - clientWidth
                  d == rows'[i].style.animationDuration
              IN  /\ rows'[i].items = rows[i].items
                  /\ rows'[i].style.hasVar
                  /\ rows'[i].style.scrollWidth2 = -2 * hidden
                  /\ d >= 15 * 1000
                  /\ d * 100 = Max(15 * 1000 * 100, hidden * 5 * 1000)
                  /\ (hidden <= 300 => d = 15 * 1000)]_vars

\* C7 witness: after a single-shot invocation one region scrolls for exactly the
\* floor and another, with more than 300 hidden pixels, for longer.
C7_Witness ==
    /\ page = "part000"
    /\ calls >= 1
    /\ \E i, j \in 1 .. Len(rows) :
         /\ Extent(rows[i]) > clientWidth
         /\ Extent(rows[i]) - clientWidth <= 300
         /\ rows[i].style.animationDuration = 15 * 1000
         /\ Extent(rows[j]) - clientWidth > 300
         /\ rows[j].style.animationDuration > 15 * 1000

(***************************************************************************)
(* The load cycle: loadAndDisplayData of each DOMContentLoaded listener.   *)
(* dashboard.js registers L1 (lines 1-215) and L2 (lines 217-400), part_000*)
(* registers L3.  A cycle suspends at await fetch(...) and at              *)
(* await response.json(); everything else runs to completion.              *)
(***************************************************************************)
OnPage(pg) == IF pg = "dashboard" THEN {"L1", "L2"} ELSE {"L3"}

\* Laid-out widths of what createVerticalTable puts into a region.
FilledWidth == 250
EmptyWidth == 100
PlaceholderWidth == 150

\* The "No shipments" span.
Placeholder == [w |-> PlaceholderWidth, ref |-> 0, clone |-> FALSE, text |-> TRUE]

\* The header text of bucket i for a reference instant on local day d.
Title(pg, d, i) ==
    IF pg = "dashboard"
    THEN [mark |-> (IF i = 0 THEN "upto" ELSE IF i = 8 THEN "onward" ELSE "date"),
          day |-> d + i - 1]
    ELSE IF i = 0 THEN [mark |-> "Overdue", day |-> 0]
    ELSE IF i = 8 THEN [mark |-> "Future", day |-> 0]
    ELSE IF i = 1 THEN [mark |-> "Today", day |-> d]
    ELSE [mark |-> "D+", day |-> d + i - 1]

Titles(pg, z, t) == [i \in Ordinals |-> Title(pg, LocalDay(z, SetHoursZero(z, t)), i)]

\* L1 builds each item as an empty div: the elements it looks up inside the new
\* div do not exist, so no field is written.
ItemsL1(shipments) ==
    IF Len(shipments) > 0
    THEN [k \in 1 .. Len(shipments) |->
            [w |-> EmptyWidth, ref |-> shipments[k].reference, clone |-> FALSE,
             text |-> FALSE]]
    ELSE << Placeholder >>

\* L2 and L3 build each item from the record's fields.
ItemsNew(shipments) ==
    IF Len(shipments) > 0
    THEN [k \in 1 .. Len(shipments) |-> Item(FilledWidth, shipments[k].reference)]
    ELSE << Placeholder >>

\* createVerticalTable of L1: fills the rows the container already has.
CreateVerticalTableL1(rs, groups, titles) ==
    [i \in 1 .. Len(rs) |->
        IF i <= 9
        THEN [rs[i] EXCEPT !.title = titles[i - 1], !.items = ItemsL1(groups[i - 1])]
        ELSE rs[i]]

\* createVerticalTable of L2 and L3: clears the container and builds nine rows.
CreateVerticalTableNew(groups, titles) ==
    [i \in 1 .. 9 |-> Region(titles[i - 1], ItemsNew(groups[i - 1]))]

ContainerFoundMutSkip == TRUE

\* document.getElementById('slider-container') is not null.
ContainerFound == hasContainer

ResponseOkMutAlways(status) == TRUE

\* response.ok
ResponseOk(status) == status \in 200 .. 299

Statuses == {200, 404, 500}

Count(l, f) == [hist EXCEPT ![l][f] = @ + 1]

\* The start of loadAndDisplayData up to the fetch; listeners run in the order
\* they were registered.
Start(l) ==
    /\ pc[l] = "idle"
    /\ l = "L2" => pc["L1"] # "idle"
    /\ keyframes' = (keyframes \/ l = "L1")
    /\ IF ContainerFound
       THEN /\ pc' = [pc EXCEPT ![l] = "fetching"]
            /\ hist' = Count(l, "fetches")
       ELSE /\ pc' = [pc EXCEPT ![l] = "aborted"]
            /\ hist' = Count(l, "logs")
    /\ UNCHANGED <<hasContainer, notice, loadingHidden>>
    /\ UNCHANGED clfVars
    /\ UNCHANGED domVars
    /\ UNCHANGED rotVars

\* Every listener of the page has run up to its first await: the listeners run
\* one after the other in the task that dispatches DOMContentLoaded, and no
\* fetch settles before that task ends.
Dispatched == \A k \in OnPage(page) : pc[k] # "idle"

\* The catch block: log, and replace the container's content by the notice.
Catch(l, h) ==
    /\ pc' = [pc EXCEPT ![l] = "failed"]
    /\ hist' = [h EXCEPT ![l].logs = @ + 1, ![l].notices = @ + 1]
    /\ notice' = TRUE
    /\ rows' = << >>
    /\ measured' = << >>

\* fetch(DATA_URL) rejects (a transport failure).
FetchRejected(l) ==
    /\ pc[l] = "fetching"
    /\ Dispatched
    /\ Catch(l, [hist EXCEPT ![l].rejected = TRUE])
    /\ UNCHANGED <<hasContainer, keyframes, loadingHidden, page, clientWidth, calls>>
    /\ UNCHANGED clfVars
    /\ UNCHANGED rotVars

\* fetch(DATA_URL) resolves with a response: throw unless response.ok.
FetchResolved(l) ==
    /\ pc[l] = "fetching"
    /\ Dispatched
    /\ \E status \in Statuses :
         LET h == [hist EXCEPT ![l].status = status]
         IN  IF ResponseOk(status)
             THEN /\ pc' = [pc EXCEPT ![l] = "parsing"]
                  /\ hist' = h
                  /\ UNCHANGED <<notice, rows, measured>>
             ELSE Catch(l, h)
    /\ UNCHANGED <<hasContainer, keyframes, loadingHidden, page, clientWidth, calls>>
    /\ UNCHANGED clfVars
    /\ UNCHANGED rotVars

\* response.json() rejects: the body is not JSON.
JsonRejected(l) ==
    /\ pc[l] = "parsing"
    /\ Catch(l, hist)
    /\ UNCHANGED <<hasContainer, keyframes, loadingHidden, page, clientWidth, calls>>
    /\ UNCHANGED clfVars
    /\ UNCHANGED rotVars

\* A region nothing has measured yet.
Unmeasured == [times |-> 0, mutated |-> FALSE]

\* L1 clears and refills the items of the first nine regions the container has
\* and then measures every region.
MeasuredAfterL1(ms) ==
    [i \in 1 .. Len(ms) |->
        [times |-> ms[i].times + 1,
         mutated |-> ms[i].mutated \/ (i <= 9 /\ ms[i].times > 0)]]

\* L2 and L3 build nine new regions and then measure each.
MeasuredAfterNew == [i \in 1 .. 9 |-> [times |-> 1, mutated |-> FALSE]]

\* response.json() resolves: hide the loading message, flatten, classify, build
\* the table and start the animator; an exception on the way reaches the catch.
JsonOk(l) ==
    /\ pc[l] = "parsing"
    /\ loadingHidden' = TRUE
    /\ allShipments' = Flat(dataByDay)
    /\ groupedData' = ProcessAndGroupShipments(tz, now, Flat(dataByDay))
    /\ LET h == [hist EXCEPT ![l].parsed = TRUE, ![l].classified = @ + 1]
           built == IF l = "L1"
                    THEN CreateVerticalTableL1(rows, groupedData'.groups,
                                               Titles(page, tz, now))
                    ELSE CreateVerticalTableNew(groupedData'.groups,
                                                Titles(page, tz, now))
       IN  IF groupedData'.raised
           THEN /\ Catch(l, h)
                /\ UNCHANGED calls
           ELSE /\ pc' = [pc EXCEPT ![l] = "done"]
                /\ hist' = [h EXCEPT ![l].built = @ + 1, ![l].animated = @ + 1]
                /\ notice' = (notice /\ l = "L1")
                /\ rows' = StartHorizontalScrolling(page, built, clientWidth)
                /\ measured' = IF l = "L1" THEN MeasuredAfterL1(measured)
                                ELSE MeasuredAfterNew
                /\ calls' = calls + 1
    /\ UNCHANGED <<hasContainer, keyframes, page, clientWidth>>
    /\ UNCHANGED <<tz, now, dataByDay, cpc>>
    /\ UNCHANGED rotVars

\* The nine rows of the page's static markup, which L1 fills.
StaticRows == [i \in 1 .. 9 |-> Region(NoTitle, << >>)]

LoadZones == { z \in Zones : z.dst = "none" /\ z.std <= 0 }

LoadRecs ==
    { NullElem,
      Rec(NoStr, NoStr),
      Rec(BadStr, NoStr),
      Rec(DateTime(TodayDay, 8), NoStr),
      Rec(DateOnly(TodayDay + 1), NoStr) }

LoadDocs == { << Numbered(l) >> : l \in SeqsUpTo(LoadRecs, MaxRec) }

Init ==
    /\ NoRot
    /\ tz \in LoadZones
    /\ now = LocalTime(tz, TodayDay, 13)
    /\ dataByDay \in LoadDocs
    /\ allShipments = << >>
    /\ groupedData = NoResult
    /\ cpc = "off"
    /\ page \in {"dashboard", "part000"}
    /\ clientWidth \in ClientWidths
    /\ hasContainer \in BOOLEAN
    /\ rows \in (IF hasContainer /\ page = "dashboard"
                 THEN {<< >>, StaticRows} ELSE {<< >>})
    /\ calls = 0
    /\ measured = [i \in 1 .. Len(rows) |-> Unmeasured]
    /\ notice = FALSE
    /\ keyframes = FALSE
    /\ loadingHidden = FALSE
    /\ pc = [l \in Listeners |-> IF l \in OnPage(page) THEN "idle" ELSE "off"]
    /\ hist = [l \in Listeners |-> NoHist]

Next ==
    \E l \in Listeners :
        \/ Start(l)
        \/ FetchRejected(l)
        \/ FetchResolved(l)
        \/ JsonRejected(l)
        \/ JsonOk(l)

Spec == Init /\ [][Next]_vars

(***************************************************************************)
(* The load cycle's error handling (claims C8 to C10).                     *)
(***************************************************************************)
\* The cycle's retrieval failed: the fetch was rejected or the response's status
\* is not a success status.
RetrievalFailed(l) ==
    \/ hist[l].rejected
    \/ hist[l].status # 0 /\ hist[l].status \notin 200 .. 299

\* C8: on a retrieval failure the cycle never invokes the classifier, the table
\* builder or the animator, issues no further retrieval, and at the failure
\* replaces the render target's content (any table included) by the notice.
C8_RetrievalFailure ==
    [][\A l \in Listeners :
          RetrievalFailed(l)' =>
              /\ pc'[l] = "failed"
              /\ hist'[l].classified = 0
              /\ hist'[l].built = 0
              /\ hist'[l].animated = 0
              /\ hist'[l].fetches = 1
              /\ hist'[l].notices = 1
              /\ hist'[l].logs = 1
              /\ ~RetrievalFailed(l) => (notice' /\ rows' = << >>)]_vars

\* C8 witness: L2 has built its table, then L1's retrieval failed with a
\* non-success response and the notice replaced the table.
C8_Witness ==
    /\ pc["L2"] = "done"
    /\ hist["L2"].built = 1
    /\ hist["L1"].status = 404
    /\ pc["L1"] = "failed"
    /\ notice
    /\ rows = << >>

\* C9: without a render target every cycle logs an error and aborts before any
\* retrieval: no fetch, no classifier, table builder or animator, no notice and
\* no other content.
C9_MissingTarget ==
    ~hasContainer =>
        /\ ~notice
        /\ rows = << >>
        /\ ~loadingHidden
        /\ calls = 0
        /\ \A l \in OnPage(page) :
             /\ pc[l] \in {"idle", "aborted"}
             /\ hist[l] = [NoHist EXCEPT !.logs = IF pc[l] = "aborted" THEN 1 ELSE 0]

\* C9 witness: both cycles of dashboard.js have aborted for want of the target.
C9_Witness ==
    /\ ~hasContainer
    /\ pc["L1"] = "aborted"
    /\ pc["L2"] = "aborted"
    /\ hist["L1"].logs = 1
    /\ hist["L2"].logs = 1

\* C10: after a successful retrieval no element of the record list makes the
\* load fail: the classifier does not raise, the cycle completes and never shows
\* the error notice.
C10_DataIssuesAbsorbed ==
    \A l \in Listeners :
        hist[l].parsed =>
            /\ pc[l] = "done"
            /\ hist[l].notices = 0
            /\ ~groupedData.raised

(***************************************************************************)
(* Monotonicity of the classifier (claim C14).                             *)
(***************************************************************************)
\* The record's EffectiveDate normalized to local midnight (shipmentDate after
\* setHours).
Normalized(r) == SetHoursZero(tz, NewDate(tz, EffectiveDateStr(r)))

\* The ordinals of the buckets a record is a member of.
OrdinalsOf(r) == { p[1] : p \in Places(r) }

\* C14: for any two classified records a and b of one run, if a's normalized
\* EffectiveDate is not later than b's, a's bucket ordinal is at most b's.
C14_Monotone ==
    Classified =>
        \A i, j \in 1 .. Len(allShipments) :
            \A oa \in OrdinalsOf(allShipments[i]), ob \in OrdinalsOf(allShipments[j]) :
                Normalized(allShipments[i]) <= Normalized(allShipments[j]) => oa <= ob

\* C14 witness: in a zone with a daylight-saving transition, a record of a
\* strictly earlier normalized date sits in a strictly lower bucket than a dated
\* record of the ISO date-only form.
C14_Witness ==
    /\ Classified
    /\ tz.dst # "none"
    /\ Len(allShipments) = 2
    /\ EffectiveDateStr(allShipments[2]).form = "date"
    /\ Normalized(allShipments[1]) < Normalized(allShipments[2])
    /\ \E oa \in OrdinalsOf(allShipments[1]), ob \in OrdinalsOf(allShipments[2]) :
         oa > 0 /\ oa < ob /\ ob < 8

(***************************************************************************)
(* The two load cycles of dashboard.js together (claims C12 and C13).      *)
(***************************************************************************)
\* C12: within one page load the animator processes each rendered region
\* exactly once, right after the region is built, and no region's items are
\* cleared or rebuilt after the animator has measured it, whatever the order in
\* which the load cycles complete.
C12_MeasuredOnce ==
    /\ Len(measured) = Len(rows)
    /\ \A i \in 1 .. Len(measured) :
         /\ measured[i].times <= 1
         /\ ~measured[i].mutated
         /\ rows[i].items # << >> => measured[i].times = 1

BothDone == page = "dashboard" /\ pc["L1"] = "done" /\ pc["L2"] = "done"

\* The render target the two cycles leave when they complete in the order they
\* were registered: the table L2 builds from the document, animated.
RegistrationOrderFinal ==
    StartHorizontalScrolling(page,
        CreateVerticalTableNew(groupedData.groups, Titles(page, tz, now)),
        clientWidth)

\* C13: once both load cycles of dashboard.js have finished, the render target
\* (titles, items of each region, animated regions) is the same for every order
\* of completion, that is the one of the registration order, and a region
\* carries a scroll animation only if its content extent exceeds its viewport.
C13_OrderIndependent ==
    BothDone =>
        /\ ~notice
        /\ rows = RegistrationOrderFinal
        /\ \A i \in 1 .. Len(rows) :
             rows[i].style # NoStyle => Extent(rows[i]) > clientWidth

(***************************************************************************)
(* The Slide Rotator (claim C11): pages of a fixed number of grid rows,     *)
(* one of them visible, advanced by a recurring timer.                     *)
(***************************************************************************)
Min(a, b) == IF a <= b THEN a ELSE b

\* k = ceil(totalRows / rowsPerPage)
NumPages(total, per) == CeilDiv(total, per)

\* The grid rows of page i: a contiguous chunk of rowsPerPage rows, the last
\* page possibly shorter.
PageRows(total, per, i) ==
    [n \in 1 .. (Min((i + 1) * per, total) - i * per) |-> i * per + n]

Paginate(total, per) ==
    [i \in 0 .. (NumPages(total, per) - 1) |-> PageRows(total, per, i)]

NextIndexMutNoWrap(i, k) == i + 1

\* currentIndex <- (currentIndex + 1) mod k
NextIndex(i, k) == (i + 1) % k

RowsPerPages == {5, 10}

\* The rotator as set up: page 0 visible, every other page hidden, and the
\* timer started only when there is more than one page.
InitRotator ==
    /\ NoClassifier
    /\ NoDom
    /\ NoLoad
    /\ \E total \in 0 .. MaxRows, per \in RowsPerPages :
         rot = [totalRows |-> total, rowsPerPage |-> per,
                pages |-> Paginate(total, per), currentIndex |-> 0,
                visible |-> {0}, timer |-> NumPages(total, per) > 1, ticks |-> 0]

\* One tick of the timer: hide the current page, advance, show the next.
Tick ==
    /\ rot.timer
    /\ rot.ticks < MaxTicks
    /\ LET next == NextIndex(rot.currentIndex, NumPages(rot.totalRows, rot.rowsPerPage))
       IN  rot' = [rot EXCEPT !.currentIndex = next,
                              !.visible = (@ \ {rot.currentIndex}) \cup {next},
                              !.ticks = @ + 1]
    /\ UNCHANGED clfVars
    /\ UNCHANGED domVars
    /\ UNCHANGED loadVars

NextRotator == Tick

SpecRotator == InitRotator /\ [][NextRotator]_vars

\* The number of pages, read off the rotator's pages.
PageCount == Cardinality(DOMAIN rot.pages)

RECURSIVE PagesConcat(_)
\* The rows of pages 0 .. i one after the other.
PagesConcat(i) == IF i < 0 THEN << >> ELSE PagesConcat(i - 1) \o rot.pages[i]

\* C11: the rotator has k = ceil(totalRows / rowsPerPage) pages, contiguous
\* chunks of the rows; it starts with page 0 alone visible; after n ticks the
\* index is n mod k, so it is back at page 0 after exactly k ticks and not
\* before; exactly one page is visible after every transition; 23 rows by 10
\* give 3 pages of 10, 10 and 3 rows; with k <= 1 no timer is started and page 0
\* stays visible.
C11_Rotator ==
    LET k == PageCount
        per == rot.rowsPerPage
        total == rot.totalRows
    IN  /\ DOMAIN rot.pages = 0 .. (k - 1)
        /\ k * per >= total
        /\ (k - 1) * per < total \/ k = 0
        /\ PagesConcat(k - 1) = [n \in 1 .. total |-> n]
        /\ \A i \in DOMAIN rot.pages :
             /\ Len(rot.pages[i]) <= per
             /\ i < k - 1 => Len(rot.pages[i]) = per
        /\ (total = 23 /\ per = 10) =>
             (k = 3 /\ Len(rot.pages[0]) = 10 /\ Len(rot.pages[1]) = 10
                    /\ Len(rot.pages[2]) = 3)
        /\ rot.visible = {rot.currentIndex}
        /\ rot.timer = (k > 1)
        /\ k > 1 =>
             /\ rot.currentIndex = rot.ticks % k
             /\ rot.currentIndex \in DOMAIN rot.pages
             /\ (rot.currentIndex = 0) = (rot.ticks % k = 0)
        /\ k <= 1 => (rot.ticks = 0 /\ rot.currentIndex = 0 /\ rot.visible = {0})

\* C11 witness: 23 rows in pages of 10, back at page 0 after exactly 3 ticks.
C11_Witness ==
    /\ rot.totalRows = 23
    /\ rot.rowsPerPage = 10
    /\ rot.ticks = 3
    /\ rot.currentIndex = 0
    /\ rot.visible = {0}

====
